---- MODULE Spec2Model ----
(***************************************************************************)
(* AI Health Navigator front end.                                          *)
(*                                                                         *)
(*   BackendStatus   (src/frontend/next.config.ts, lines 11-111)           *)
(*       the availability prober: checkBackend / tryConnect                *)
(*   HealthNavigator (src/frontend/app/HealthNavigator.tsx)                *)
(*       the report workflow: handleFileUpload, analyzeReport,             *)
(*       handleAskQuestion and the tab buttons                             *)
(*   api.ts          (src/frontend/app/api/api.ts)                         *)
(*       uploadReport, analyzeReportAPI, askQuestionAPI                    *)
(*                                                                         *)
(* Time is counted in milliseconds, as Date.now() and setTimeout do.       *)
(***************************************************************************)
EXTENDS Integers, Sequences, FiniteSets, TLC

\* ------------------------------------------------------------------ bounds

\* how many times the clock may advance in one behaviour
MaxTicks == 6

\* the amounts by which the clock advances in one step (ms)
TickSteps == {500, 10000, 60000}

\* how many runs of analyzeReport and ask requests, together, one behaviour starts
MaxCalls == 3

\* ------------------------------------------------- constants of the prober

\* next.config.ts:3  reactStrictMode: true
reactStrictMode == TRUE

\* next.config.ts:26  const maxAttempts = 3
maxAttempts == 3

\* next.config.ts:34  AbortSignal.timeout(60000)
HealthTimeoutMs == 60000

\* next.config.ts:55  setTimeout(tryConnect, 10000)
RetryDelayMs == 10000

\* next.config.ts:42  if (elapsed > 15)
ColdStartSeconds == 15

\* next.config.ts:44  setTimeout(() => setStatus('hidden'), 3000)
HideDelaySleepingMs == 3000

\* next.config.ts:47  setTimeout(() => setStatus('hidden'), 2000)
HideDelayReadyMs == 2000

\* the activations of checkBackend one mount can start
Activations == {1, 2}

\* what one health request can end with
HealthOutcomes == {"ok", "non2xx", "network", "timeout"}

VARIABLES
    \* ---- BackendStatus
    devBuild,       \* TRUE: development build (next dev), FALSE: production build
    now,            \* Date.now(), ms since the page was loaded
    ticks,          \* number of clock advances so far
    mounted,        \* the component has been committed and its effect has run
    status,         \* useState('checking')
    message,        \* useState('Checking server...')
    duration,       \* useState(0)
    pc,             \* per activation: "idle", "fetching", "waiting", "done"
    startTime,      \* per activation: const startTime = Date.now()
    attempts,       \* per activation: let attempts = 0
    fetchStart,     \* per activation: when the outstanding fetch was issued (0: none)
    retryDue,       \* per activation: when the pending setTimeout(tryConnect) is due (0: none)
    hideTimers,     \* pending setTimeout(() => setStatus('hidden')) callbacks
    issued,         \* per activation: number of GET /health requests sent
    results,        \* per activation: how its health requests ended ("ok", "fail"), in order
    \* ---- HealthNavigator
    activeTab,      \* useState("upload")
    file,           \* useState(null)
    analyzing,      \* useState(false)
    report,         \* useState(null)
    chatMessages,   \* useState([])
    userQuestion,   \* useState("")
    pipelines,      \* runs of analyzeReport suspended at an await, with their request
    asks,           \* runs of handleAskQuestion suspended at their await: the request and
                    \* the chatMessages, newMessages the run closed over
    runCount,       \* number of analyzeReport runs started
    askCount,       \* number of ask requests sent
    uncaught,       \* an error escaped a handler
    lastEvent       \* the handler or continuation that ran last: its input and its alert()

proberVars == <<devBuild, now, ticks, mounted, status, message, duration, pc,
                startTime, attempts, fetchStart, retryDue, hideTimers, issued,
                results>>

navVars == <<activeTab, file, analyzing, report, chatMessages, userQuestion,
             pipelines, asks, runCount, askCount, uncaught, lastEvent>>

vars == <<proberVars, navVars>>

\* ------------------------------------------------------ BackendStatus

\* React runs a mount effect twice (mount, simulated unmount, mount) when
\* reactStrictMode is on and the build is a development build; the component
\* state survives, and the effect has no cleanup, so both activations live on.
EffectRuns == IF reactStrictMode /\ devBuild THEN 2 ELSE 1

\* Math.round(x / 1000) for a non-negative integer x
RoundSeconds(ms) == (ms + 500) \div 1000

\* variant: the elapsed time counted from the start of the attempt
ElapsedOfAttempt(a) == RoundSeconds(now - fetchStart[a])

\* const elapsed = Math.round((Date.now() - startTime) / 1000)
Elapsed(a) == RoundSeconds(now - startTime[a])

\* the delay of the auto-dismiss timer
HideDelay(elapsed) ==
    IF elapsed > ColdStartSeconds THEN HideDelaySleepingMs ELSE HideDelayReadyMs

\* variant: if (attempts <= maxAttempts)
MayRetryInclusive(a) == attempts[a] <= maxAttempts

\* if (attempts < maxAttempts)
MayRetry(a) == attempts[a] < maxAttempts

Failed(outcome) == outcome # "ok"

InitProber ==
    /\ devBuild \in BOOLEAN
    /\ now = 0
    /\ ticks = 0
    /\ mounted = FALSE
    /\ status = "checking"
    /\ message = <<"Checking server...">>
    /\ duration = 0
    /\ pc = [a \in Activations |-> "idle"]
    /\ startTime = [a \in Activations |-> 0]
    /\ attempts = [a \in Activations |-> 0]
    /\ fetchStart = [a \in Activations |-> 0]
    /\ retryDue = [a \in Activations |-> 0]
    /\ hideTimers = {}
    /\ issued = [a \in Activations |-> 0]
    /\ results = [a \in Activations |-> <<>>]

\* useEffect(() => { checkBackend(); }, []) : each run of the effect calls
\* checkBackend, which reads the clock, zeroes attempts and calls tryConnect;
\* tryConnect runs up to its fetch before the effect returns.
useEffect ==
    /\ ~mounted
    /\ mounted' = TRUE
    /\ startTime' = [a \in Activations |-> IF a <= EffectRuns THEN now ELSE startTime[a]]
    /\ attempts' = [a \in Activations |-> IF a <= EffectRuns THEN 1 ELSE attempts[a]]
    /\ message' = <<"Connecting to server... (Attempt", 1, maxAttempts>>
    /\ pc' = [a \in Activations |-> IF a <= EffectRuns THEN "fetching" ELSE pc[a]]
    /\ fetchStart' = [a \in Activations |-> IF a <= EffectRuns THEN now ELSE fetchStart[a]]
    /\ issued' = [a \in Activations |-> IF a <= EffectRuns THEN 1 ELSE issued[a]]
    /\ UNCHANGED <<devBuild, now, ticks, status, duration, retryDue, hideTimers, results>>
    /\ UNCHANGED navVars

\* the retry timer fires: tryConnect runs again, up to its fetch
tryConnect(a) ==
    /\ pc[a] = "waiting"
    /\ now >= retryDue[a]
    /\ attempts' = [attempts EXCEPT ![a] = @ + 1]
    /\ message' = <<"Connecting to server... (Attempt", attempts[a] + 1, maxAttempts>>
    /\ pc' = [pc EXCEPT ![a] = "fetching"]
    /\ fetchStart' = [fetchStart EXCEPT ![a] = now]
    /\ issued' = [issued EXCEPT ![a] = @ + 1]
    /\ retryDue' = [retryDue EXCEPT ![a] = 0]
    /\ UNCHANGED <<devBuild, now, ticks, mounted, status, duration, startTime,
                   hideTimers, results>>
    /\ UNCHANGED navVars

\* the catch block of tryConnect
CatchBlock(a) ==
    IF MayRetry(a)
    THEN /\ message' = <<"Server starting up... Retrying...">>
         /\ pc' = [pc EXCEPT ![a] = "waiting"]
         /\ retryDue' = [retryDue EXCEPT ![a] = now + RetryDelayMs]
         /\ UNCHANGED status
    ELSE /\ status' = "error"
         /\ message' = <<"Cannot connect to server.">>
         /\ pc' = [pc EXCEPT ![a] = "done"]
         /\ UNCHANGED retryDue

\* the fetch of activation a settles and the rest of tryConnect runs
HealthResponse(a, outcome) ==
    /\ pc[a] = "fetching"
    /\ IF outcome = "timeout"
       THEN now - fetchStart[a] >= HealthTimeoutMs
       ELSE now - fetchStart[a] <= HealthTimeoutMs
    /\ results' = [results EXCEPT ![a] = Append(@, IF Failed(outcome) THEN "fail" ELSE "ok")]
    /\ fetchStart' = [fetchStart EXCEPT ![a] = 0]
    /\ CASE outcome = "ok" ->
              /\ duration' = Elapsed(a)
              /\ status' = "online"
              /\ message' = IF Elapsed(a) > ColdStartSeconds
                            THEN <<"Server was sleeping, now awake!", Elapsed(a)>>
                            ELSE <<"Server is ready!">>
              /\ hideTimers' = hideTimers \cup
                     {[due |-> now + HideDelay(Elapsed(a)), delay |-> HideDelay(Elapsed(a))]}
              /\ pc' = [pc EXCEPT ![a] = "done"]
              /\ UNCHANGED retryDue
         [] outcome = "non2xx" ->
              /\ duration' = Elapsed(a)
              /\ CatchBlock(a)
              /\ UNCHANGED hideTimers
         [] OTHER ->
              /\ CatchBlock(a)
              /\ UNCHANGED <<duration, hideTimers>>
    /\ UNCHANGED <<devBuild, now, ticks, mounted, startTime, attempts, issued>>
    /\ UNCHANGED navVars

\* an auto-dismiss timer fires: () => setStatus('hidden')
HideTimer(t) ==
    /\ t \in hideTimers
    /\ now >= t.due
    /\ status' = "hidden"
    /\ hideTimers' = hideTimers \ {t}
    /\ UNCHANGED <<devBuild, now, ticks, mounted, message, duration, pc, startTime,
                   attempts, fetchStart, retryDue, issued, results>>
    /\ UNCHANGED navVars

\* the clock advances
Tick(d) ==
    /\ mounted
    /\ ticks < MaxTicks
    /\ now' = now + d
    /\ ticks' = ticks + 1
    /\ UNCHANGED <<devBuild, mounted, status, message, duration, pc, startTime,
                   attempts, fetchStart, retryDue, hideTimers, issued, results>>
    /\ UNCHANGED navVars

NextProber ==
    \/ useEffect
    \/ \E a \in Activations : tryConnect(a)
    \/ \E a \in Activations, o \in HealthOutcomes : HealthResponse(a, o)
    \/ \E t \in hideTimers : HideTimer(t)
    \/ \E d \in TickSteps : Tick(d)

\* ------------------------------------------------------ HealthNavigator

\* null / undefined
Null == [t |-> "null"]
Undefined == [t |-> "undefined"]

\* a JavaScript string (a sequence of text tokens) and a JavaScript array
Str(s) == [t |-> "string", v |-> s]
Arr(a) == [t |-> "array", v |-> a]

\* x || d : undefined, null and the empty string are falsy, an array never is
Falsy(x) == x.t = "undefined" \/ x.t = "null" \/ (x.t = "string" /\ x.v = <<>>)
OrElse(x, d) == IF Falsy(x) THEN d ELSE x.v

\* what the file input can hand to handleFileUpload: e.target.files?.[0]
Files == {[t |-> "file", name |-> "a.pdf", type |-> "application/pdf"],
          [t |-> "file", name |-> "b.pdf", type |-> "application/pdf"],
          [t |-> "file", name |-> "notes.txt", type |-> "text/plain"]}
Selections == Files \cup {Undefined}

\* the four tab buttons
Tabs == {"upload", "results", "chat", "actions"}

\* report ids the backend hands out
ReportIds == {"r1", "r2"}

\* the questions that can be typed, as sequences of characters
Questions == {<<>>, <<" ", " ">>, <<"q">>, <<" ", "q", " ">>}

\* bodies of a 2xx answer of POST /api/ask
AskBodies == {[answer |-> Undefined], [answer |-> Str(<<>>)], [answer |-> Str(<<"X">>)]}

\* bodies of a 2xx answer of POST /api/analyze/{reportId}
FullAnalysis ==
    [patient_name |-> Str(<<"Ann">>), report_type |-> Str(<<"CBC">>),
     key_findings |-> Arr(<<[metric |-> "WBC", range |-> "4-11", value |-> "12",
                             status |-> "elevated"]>>),
     summary |-> Str(<<"Slightly raised WBC">>), next_steps |-> Arr(<<"Retest">>),
     urgency |-> Str(<<"moderate">>)]
MissingAnalysis ==
    [patient_name |-> Undefined, report_type |-> Undefined, key_findings |-> Undefined,
     summary |-> Undefined, next_steps |-> Undefined, urgency |-> Undefined]
BlankAnalysis ==
    [patient_name |-> Str(<<>>), report_type |-> Str(<<>>), key_findings |-> Arr(<<>>),
     summary |-> Str(<<>>), next_steps |-> Arr(<<>>), urgency |-> Str(<<>>)]
AnalysisBodies == {FullAnalysis, MissingAnalysis, BlankAnalysis}

\* how a request of api.ts can end: res.ok, !res.ok (the function throws), or
\* fetch itself rejecting
ApiOutcomes == {"ok", "non2xx", "network"}

\* variant: the question is tested as typed, if (!userQuestion) return
trimNothing(s) == s

\* String.prototype.trim on a sequence of characters
RECURSIVE TrimStart(_)
TrimStart(s) == IF s # <<>> /\ Head(s) = " " THEN TrimStart(Tail(s)) ELSE s
RECURSIVE TrimEnd(_)
TrimEnd(s) == IF s # <<>> /\ s[Len(s)] = " " THEN TrimEnd(SubSeq(s, 1, Len(s) - 1)) ELSE s
trim(s) == TrimEnd(TrimStart(s))

\* variant: any selected file is accepted
IsAnyFile(sel) == sel.t = "file"

\* uploadedFile && uploadedFile.type === "application/pdf"
IsPdf(sel) == sel.t = "file" /\ sel.type = "application/pdf"

\* variant: the tab buttons without disabled={!report}
TabNeverDisabled(tab) == FALSE

\* disabled={!report} on the results, chat and actions buttons
TabDisabled(tab) == tab # "upload" /\ report = Null

\* {activeTab === "upload" && ...}: the file input and the Analyze button
UploadTabShown == activeTab = "upload"

\* variant: the Analyze button without disabled={analyzing}
AnalyzeButtonNeverDisabled == UploadTabShown /\ file # Null

\* {file && ...} and disabled={analyzing}: the Analyze button can be clicked
AnalyzeButtonEnabled == UploadTabShown /\ file # Null /\ ~analyzing

\* {activeTab === "chat" && report && ...}: the question input and Send button
ChatTabShown == activeTab = "chat" /\ report # Null

\* variant: the defaults of patientName and reportType are swapped
MakeReportSwappedDefaults(res, reportId) ==
    [t |-> "report",
     patientName |-> OrElse(res.patient_name, <<"Unknown Report">>),
     reportType |-> OrElse(res.report_type, <<"Unknown">>),
     date |-> "client-today",
     keyFindings |-> OrElse(res.key_findings, <<>>),
     summary |-> OrElse(res.summary, <<"No summary available.">>),
     nextSteps |-> OrElse(res.next_steps, <<>>),
     urgency |-> OrElse(res.urgency, <<"routine">>),
     reportId |-> reportId]

\* the Report that analyzeReport builds from the analyze response
MakeReport(res, reportId) ==
    [t |-> "report",
     patientName |-> OrElse(res.patient_name, <<"Unknown">>),
     reportType |-> OrElse(res.report_type, <<"Unknown Report">>),
     date |-> "client-today",
     keyFindings |-> OrElse(res.key_findings, <<>>),
     summary |-> OrElse(res.summary, <<"No summary available.">>),
     nextSteps |-> OrElse(res.next_steps, <<>>),
     urgency |-> OrElse(res.urgency, <<"routine">>),
     reportId |-> reportId]

\* variant: response.answer ?? "No answer available."
AiResponseNullish(body) ==
    IF body.answer.t \in {"undefined", "null"} THEN <<"No answer available.">> ELSE body.answer.v

\* const aiResponse = response.answer || "No answer available."
AiResponse(body) == OrElse(body.answer, <<"No answer available.">>)

UserMessage(text) == [type |-> "user", text |-> text]
AiMessage(text) == [type |-> "ai", text |-> text]

\* err.message of the error a failed request throws
UploadError(outcome) == IF outcome = "non2xx" THEN "File upload failed" ELSE "Failed to fetch"
AnalyzeError(outcome) == IF outcome = "non2xx" THEN "Analysis failed" ELSE "Failed to fetch"

\* no alert() was raised
NoAlert == <<>>

InitNav ==
    /\ activeTab = "upload"
    /\ file = Null
    /\ analyzing = FALSE
    /\ report = Null
    /\ chatMessages = <<>>
    /\ userQuestion = <<>>
    /\ pipelines = {}
    /\ asks = {}
    /\ runCount = 0
    /\ askCount = 0
    /\ uncaught = FALSE
    /\ lastEvent = [op |-> "none", alert |-> NoAlert]

\* onChange={handleFileUpload}
handleFileUpload(sel) ==
    /\ UploadTabShown
    /\ IF IsPdf(sel)
       THEN /\ file' = sel
            /\ lastEvent' = [op |-> "handleFileUpload", alert |-> NoAlert, selection |-> sel]
       ELSE /\ lastEvent' = [op |-> "handleFileUpload",
                             alert |-> <<"Please upload a PDF file">>, selection |-> sel]
            /\ UNCHANGED file
    /\ UNCHANGED <<activeTab, analyzing, report, chatMessages, userQuestion, pipelines,
                   asks, runCount, askCount, uncaught>>
    /\ UNCHANGED proberVars

\* variant: analyzeReport without setReport(null)
analyzeReportKeepsReport ==
    /\ AnalyzeButtonEnabled
    /\ runCount + askCount < MaxCalls
    /\ analyzing' = TRUE
    /\ runCount' = runCount + 1
    /\ pipelines' = pipelines \cup
           {[id |-> runCount + 1, stage |-> "upload", file |-> file, reportId |-> "none"]}
    /\ lastEvent' = [op |-> "analyzeReport", alert |-> NoAlert, run |-> runCount + 1]
    /\ UNCHANGED <<activeTab, file, report, chatMessages, userQuestion, asks, askCount,
                   uncaught>>
    /\ UNCHANGED proberVars

\* onClick={analyzeReport}, up to await uploadReport(file)
analyzeReport ==
    /\ AnalyzeButtonEnabled
    /\ runCount + askCount < MaxCalls
    /\ analyzing' = TRUE
    /\ report' = Null
    /\ runCount' = runCount + 1
    /\ pipelines' = pipelines \cup
           {[id |-> runCount + 1, stage |-> "upload", file |-> file, reportId |-> "none"]}
    /\ lastEvent' = [op |-> "analyzeReport", alert |-> NoAlert, run |-> runCount + 1]
    /\ UNCHANGED <<activeTab, file, chatMessages, userQuestion, asks, askCount, uncaught>>
    /\ UNCHANGED proberVars

\* alert("Error analyzing report: " + err.message) when the request failed
AnalyzeAlert(outcome, errMessage) ==
    IF outcome = "ok" THEN NoAlert ELSE <<"Error analyzing report: ", errMessage>>

\* variant: the catch block stores a Report made of defaults
AnalyzeCatchPartialReport(p) ==
    /\ analyzing' = FALSE
    /\ pipelines' = pipelines \ {p}
    /\ report' = [t |-> "report", reportId |-> p.reportId]
    /\ UNCHANGED activeTab

\* variant: setAnalyzing(false) sits at the end of the try block, not in finally
AnalyzeCatchNoFinally(p) ==
    /\ pipelines' = pipelines \ {p}
    /\ UNCHANGED <<analyzing, report, activeTab>>

\* catch (err) { ... } finally { setAnalyzing(false) } of analyzeReport
AnalyzeCatch(p) ==
    /\ analyzing' = FALSE
    /\ pipelines' = pipelines \ {p}
    /\ UNCHANGED <<report, activeTab>>

\* variant: the id is read from a field the upload response does not have
StartAnalyzeWrongField(p, reportId) ==
    /\ pipelines' = (pipelines \ {p}) \cup
           {[p EXCEPT !.stage = "analyze", !.reportId = "undefined"]}
    /\ UNCHANGED <<analyzing, report, activeTab>>

\* const reportId = uploadRes.report_id; await analyzeReportAPI(reportId)
StartAnalyze(p, reportId) ==
    /\ pipelines' = (pipelines \ {p}) \cup
           {[p EXCEPT !.stage = "analyze", !.reportId = reportId]}
    /\ UNCHANGED <<analyzing, report, activeTab>>

\* uploadReport settles; on success analyzeReport goes on to
\* await analyzeReportAPI(reportId)
UploadSettled(p, outcome, reportId) ==
    /\ p \in pipelines
    /\ p.stage = "upload"
    /\ IF outcome = "ok"
       THEN StartAnalyze(p, reportId)
       ELSE AnalyzeCatch(p)
    /\ lastEvent' = [op |-> "uploadSettled", alert |-> AnalyzeAlert(outcome, UploadError(outcome)),
                     run |-> p.id, outcome |-> outcome,
                     reportId |-> IF outcome = "ok" THEN reportId ELSE "none"]
    /\ UNCHANGED <<file, chatMessages, userQuestion, asks, runCount, askCount, uncaught>>
    /\ UNCHANGED proberVars

\* variant: the result is stored but the tab is not switched
AnalyzeDoneNoSwitch(p, body) ==
    /\ report' = MakeReport(body, p.reportId)
    /\ analyzing' = FALSE
    /\ pipelines' = pipelines \ {p}
    /\ UNCHANGED activeTab

\* setReport({...}); setActiveTab("results"); finally { setAnalyzing(false) }
AnalyzeDone(p, body) ==
    /\ report' = MakeReport(body, p.reportId)
    /\ activeTab' = "results"
    /\ analyzing' = FALSE
    /\ pipelines' = pipelines \ {p}

\* analyzeReportAPI settles; the rest of analyzeReport runs
AnalyzeSettled(p, outcome, body) ==
    /\ p \in pipelines
    /\ p.stage = "analyze"
    /\ IF outcome = "ok"
       THEN AnalyzeDone(p, body)
       ELSE AnalyzeCatch(p)
    /\ lastEvent' = [op |-> "analyzeSettled", alert |-> AnalyzeAlert(outcome, AnalyzeError(outcome)),
                     run |-> p.id, outcome |-> outcome, reportId |-> p.reportId,
                     body |-> IF outcome = "ok" THEN body ELSE Undefined]
    /\ UNCHANGED <<file, chatMessages, userQuestion, asks, runCount, askCount, uncaught>>
    /\ UNCHANGED proberVars

\* onClick={() => setActiveTab(tab)}
setActiveTab(tab) ==
    /\ ~TabDisabled(tab)
    /\ activeTab' = tab
    /\ lastEvent' = [op |-> "setActiveTab", alert |-> NoAlert]
    /\ UNCHANGED <<file, analyzing, report, chatMessages, userQuestion, pipelines, asks,
                   runCount, askCount, uncaught>>
    /\ UNCHANGED proberVars

\* onChange={(e) => setUserQuestion(e.target.value)}
setUserQuestion(q) ==
    /\ ChatTabShown
    /\ userQuestion' = q
    /\ lastEvent' = [op |-> "setUserQuestion", alert |-> NoAlert]
    /\ UNCHANGED <<activeTab, file, analyzing, report, chatMessages, pipelines, asks,
                   runCount, askCount, uncaught>>
    /\ UNCHANGED proberVars

\* const newMessages = [...chatMessages, { type: "user", text: userQuestion }]
NewMessages == Append(chatMessages, UserMessage(userQuestion))

\* the Send button or Enter: handleAskQuestion, up to await askQuestionAPI(...)
handleAskQuestion ==
    /\ ChatTabShown
    /\ trim(userQuestion) = <<>> \/ runCount + askCount < MaxCalls
    /\ IF trim(userQuestion) = <<>>
       THEN /\ lastEvent' = [op |-> "handleAskQuestion", alert |-> NoAlert, sent |-> FALSE]
            /\ UNCHANGED <<chatMessages, userQuestion, asks, askCount>>
       ELSE IF report = Null \/ report.reportId = ""
       THEN /\ lastEvent' = [op |-> "handleAskQuestion",
                             alert |-> <<"No analyzed report found.">>, sent |-> FALSE]
            /\ UNCHANGED <<chatMessages, userQuestion, asks, askCount>>
       ELSE /\ chatMessages' = NewMessages
            /\ userQuestion' = <<>>
            /\ askCount' = askCount + 1
            /\ asks' = asks \cup
                   {[id |-> askCount + 1, reportId |-> report.reportId,
                     question |-> userQuestion, chatMessages |-> chatMessages,
                     newMessages |-> NewMessages]}
            /\ lastEvent' = [op |-> "handleAskQuestion", alert |-> NoAlert, sent |-> TRUE]
    /\ UNCHANGED <<activeTab, file, analyzing, report, pipelines, runCount, uncaught>>
    /\ UNCHANGED proberVars

\* variant: the error is rethrown instead of being turned into a message
AskCatchRethrow(r) ==
    /\ uncaught' = TRUE
    /\ UNCHANGED chatMessages

\* catch (err) { setChatMessages([...newMessages, fallback]) } of handleAskQuestion
AskCatch(r) ==
    /\ chatMessages' = Append(r.newMessages, AiMessage(<<"Sorry, something went wrong.">>))
    /\ UNCHANGED uncaught

\* setChatMessages([...newMessages, { type: "ai", text: aiResponse }])
AskDone(r, body) ==
    /\ chatMessages' = Append(r.newMessages, AiMessage(AiResponse(body)))
    /\ UNCHANGED uncaught

\* askQuestionAPI settles; the rest of handleAskQuestion runs
AskSettled(r, outcome, body) ==
    /\ r \in asks
    /\ asks' = asks \ {r}
    /\ IF outcome = "ok"
       THEN AskDone(r, body)
       ELSE AskCatch(r)
    /\ lastEvent' = [op |-> "askSettled", alert |-> NoAlert, ask |-> r,
                     outcome |-> outcome, body |-> body]
    /\ UNCHANGED <<activeTab, file, analyzing, report, userQuestion, pipelines, runCount,
                   askCount>>
    /\ UNCHANGED proberVars

NextNav ==
    \/ \E sel \in Selections : handleFileUpload(sel)
    \/ analyzeReport
    \/ \E p \in pipelines, o \in ApiOutcomes, rid \in ReportIds : UploadSettled(p, o, rid)
    \/ \E p \in pipelines, o \in ApiOutcomes, b \in AnalysisBodies : AnalyzeSettled(p, o, b)
    \/ \E tab \in Tabs : setActiveTab(tab)
    \/ \E q \in Questions : setUserQuestion(q)
    \/ handleAskQuestion
    \/ \E r \in asks, o \in ApiOutcomes, b \in AskBodies : AskSettled(r, o, b)

\* ------------------------------------------------------ specifications

Init == InitProber /\ InitNav

\* the availability prober on its own
SpecProber == Init /\ [][NextProber]_vars

\* the report workflow on its own (it shares no state with the prober)
InitNavigator == Init /\ devBuild = FALSE
SpecNavigator == InitNavigator /\ [][NextNav]_vars

\* ------------------------------------------------------ properties: prober

\* every health request of activation a so far has failed
AllFailed(a) ==
    /\ results[a] # <<>>
    /\ \A i \in 1..Len(results[a]) : results[a][i] = "fail"

\* activation a has ended without ever getting a 2xx answer
GaveUp(a) == pc[a] = "done" /\ AllFailed(a)

\* C1: an activation whose health checks all fail ends exactly when its third
\* request has failed, and that step sets status to 'error'; from then on the
\* activation sends no further request and schedules no retry, and where it is
\* the only activation of the mount the status stays 'error'.
C1_ThreeFailuresThenError ==
    [][\A a \in Activations :
          /\ (GaveUp(a)' /\ ~GaveUp(a)) =>
                 /\ issued'[a] = 3
                 /\ Len(results'[a]) = 3
                 /\ status' = "error"
          /\ (AllFailed(a)' /\ Len(results'[a]) < 3) => pc'[a] # "done"
          /\ GaveUp(a) =>
                 /\ issued'[a] = issued[a]
                 /\ pc'[a] = "done"
                 /\ retryDue'[a] = 0
                 /\ (EffectRuns = 1 => status' = "error")]_vars

C1_Witness ==
    \E a \in Activations :
        GaveUp(a) /\ issued[a] = 3 /\ status = "error" /\ results[a] = <<"fail", "fail", "fail">>

\* C2: when the first two health checks of an activation fail and the third
\* succeeds, the step that handles the third answer sets status to 'online'
\* and records an elapsed time, counted from the start of the activation, of
\* at least 20 seconds (two retry delays of 10 seconds each have passed).
C2_OnlineAfterTwoRetries ==
    [][\A a \in Activations :
          (results'[a] = <<"fail", "fail", "ok">> /\ results[a] # results'[a]) =>
              /\ status' = "online"
              /\ duration' >= 20
              /\ now' - startTime'[a] >= 2 * RetryDelayMs
              /\ pc'[a] = "done"]_vars

C2_Witness ==
    \E a \in Activations :
        /\ results[a] = <<"fail", "fail", "ok">>
        /\ status = "online"
        /\ duration >= 20

\* C3: the status only moves checking -> online, checking -> error and
\* online -> hidden; 'hidden' is set only by an auto-dismiss timer, and such a
\* timer is scheduled with 3 seconds when elapsed > 15 and 2 seconds otherwise.
C3_StatusTransitions ==
    [][/\ status' # status =>
             <<status, status'>> \in {<<"checking", "online">>, <<"checking", "error">>,
                                     <<"online", "hidden">>}
       /\ (status' = "hidden" /\ status # "hidden") => hideTimers' # hideTimers
       /\ \A t \in hideTimers' \ hideTimers :
             t.delay = IF duration' > 15 THEN 3000 ELSE 2000]_vars

\* C4: at most one health request is outstanding at any moment.
C4_OneHealthRequestOutstanding ==
    Cardinality({a \in Activations : pc[a] = "fetching"}) <= 1

\* ------------------------------------------------------ properties: workflow

\* the selection is not a file of MIME type application/pdf
NotPdfSelection(sel) == sel.t # "file" \/ sel.type # "application/pdf"

\* C5: a file selection that is not of type application/pdf (the empty
\* selection included) starts no request and leaves the file state, and all
\* other state, as it was; its only effect is the alert.
C5_NonPdfRejected ==
    [][(lastEvent'.op = "handleFileUpload" /\ NotPdfSelection(lastEvent'.selection)) =>
          /\ file' = file
          /\ pipelines' = pipelines
          /\ asks' = asks
          /\ lastEvent'.alert = <<"Please upload a PDF file">>
          /\ UNCHANGED <<activeTab, analyzing, report, chatMessages, userQuestion,
                         runCount, askCount, uncaught>>]_vars

C5_Witness ==
    /\ lastEvent.op = "handleFileUpload"
    /\ NotPdfSelection(lastEvent.selection)
    /\ file # Null

\* the chat as one ask leaves it: the chat at the time of the call, the user's
\* question, the ai text
ChatAfterAsk(r, aiText) ==
    r.chatMessages \o <<[type |-> "user", text |-> r.question], [type |-> "ai", text |-> aiText]>>

\* the step sends a question
AskSent == lastEvent'.op = "handleAskQuestion" /\ lastEvent'.sent

\* the user entry is appended when the question is sent, before the request resolves
UserEntryAddedAtOnce ==
    AskSent =>
        /\ chatMessages' = chatMessages \o <<[type |-> "user", text |-> userQuestion]>>
        /\ \E r \in asks' \ asks : r.question = userQuestion /\ r.chatMessages = chatMessages

\* C6 as stated: on success the chat is the chat at the time of the call plus
\* {user, question}, {ai, answer}, the ai text being the answer, or
\* "No answer available." when the answer field is absent.
C6_AsStated ==
    [][/\ UserEntryAddedAtOnce
       /\ (lastEvent'.op = "askSettled" /\ lastEvent'.outcome = "ok") =>
             chatMessages' = ChatAfterAsk(lastEvent'.ask,
                 IF lastEvent'.body.answer.t = "undefined"
                 THEN <<"No answer available.">>
                 ELSE lastEvent'.body.answer.v)]_vars

\* C6 (amended): on success the chat is the chat at the time of the call plus
\* {user, question}, {ai, answer}, the ai text being the answer, or
\* "No answer available." when the answer field is absent or the empty string;
\* the user entry is appended when the question is sent.
C6_AskSuccessAppendsTwo ==
    [][/\ UserEntryAddedAtOnce
       /\ (lastEvent'.op = "askSettled" /\ lastEvent'.outcome = "ok") =>
             chatMessages' = ChatAfterAsk(lastEvent'.ask,
                 IF lastEvent'.body.answer.t = "undefined" \/ lastEvent'.body.answer.v = <<>>
                 THEN <<"No answer available.">>
                 ELSE lastEvent'.body.answer.v)]_vars

C6_Witness ==
    /\ lastEvent.op = "askSettled"
    /\ lastEvent.outcome = "ok"
    /\ lastEvent.body.answer = Str(<<>>)
    /\ chatMessages = ChatAfterAsk(lastEvent.ask, <<"No answer available.">>)

\* C7: when the ask request fails, the chat is the chat at the time of the call
\* plus {user, question}, {ai, "Sorry, something went wrong."}; the handler
\* has completed and no error has escaped it.
C7_AskFailureAppendsFallback ==
    [][(lastEvent'.op = "askSettled" /\ lastEvent'.outcome \in {"non2xx", "network"}) =>
          /\ chatMessages' = ChatAfterAsk(lastEvent'.ask, <<"Sorry, something went wrong.">>)
          /\ lastEvent'.ask \notin asks'
          /\ ~uncaught']_vars

C7_Witness ==
    /\ lastEvent.op = "askSettled"
    /\ lastEvent.outcome \in {"non2xx", "network"}
    /\ chatMessages = ChatAfterAsk(lastEvent.ask, <<"Sorry, something went wrong.">>)

\* the question is empty or consists of white space only
Blank(q) == \A i \in 1..Len(q) : q[i] = " "

\* C8: handleAskQuestion, run with a blank question or without a report, sends
\* no request, appends nothing to the chat and leaves the question input, the
\* report and the active tab as they were.
C8_BlankQuestionIsNoOp ==
    [][(lastEvent'.op = "handleAskQuestion" /\ (Blank(userQuestion) \/ report = Null)) =>
          /\ asks' = asks
          /\ pipelines' = pipelines
          /\ askCount' = askCount
          /\ chatMessages' = chatMessages
          /\ userQuestion' = userQuestion
          /\ report' = report
          /\ activeTab' = activeTab]_vars

C8_Witness ==
    /\ lastEvent.op = "handleAskQuestion"
    /\ ~lastEvent.sent
    /\ userQuestion = <<" ", " ">>
    /\ chatMessages # <<>>

\* s is an initial part of t
IsPrefix(s, t) == Len(s) <= Len(t) /\ SubSeq(t, 1, Len(s)) = s

\* C9: the chat sequence is append-only: every step leaves it an extension of
\* what it was.
C9_ChatAppendOnly == [][IsPrefix(chatMessages, chatMessages')]_vars

\* C10: when the analyze request of a run succeeds (its upload having
\* succeeded before), a Report exists, the active tab is 'results' and the
\* results, chat and actions tabs are enabled.
C10_AnalysisShowsResults ==
    (lastEvent.op = "analyzeSettled" /\ lastEvent.outcome = "ok") =>
        /\ report # Null
        /\ report.reportId = lastEvent.reportId
        /\ activeTab = "results"
        /\ \A tab \in {"results", "chat", "actions"} : ~TabDisabled(tab)
        /\ ~analyzing

C10_Witness ==
    /\ lastEvent.op = "analyzeSettled"
    /\ lastEvent.outcome = "ok"
    /\ activeTab = "results"
    /\ report # Null

\* the value the Report takes for a field: the response's, or the default
\* when the field is absent
TakeIfPresent(x, d) == IF x.t = "undefined" THEN d ELSE x.v

\* the same, the default also standing in for an empty string
TakeIfNotEmpty(x, d) ==
    IF x.t = "undefined" \/ (x.t = "string" /\ x.v = <<>>) THEN d ELSE x.v

\* a successful analyze call has just been handled
AnalyzeSucceeded == lastEvent.op = "analyzeSettled" /\ lastEvent.outcome = "ok"

\* the analyze request of a run carries the report_id its upload returned
AnalyzeUsesUploadedId ==
    lastEvent.op = "uploadSettled" =>
        \A p \in pipelines : p.id = lastEvent.run => p.reportId = lastEvent.reportId

\* C11 as stated: the Report takes each field from the analyze response when it
\* is present and otherwise the default, and its reportId is the upload's report_id.
C11_AsStated ==
    /\ AnalyzeUsesUploadedId
    /\ AnalyzeSucceeded =>
          /\ report.patientName = TakeIfPresent(lastEvent.body.patient_name, <<"Unknown">>)
          /\ report.reportType = TakeIfPresent(lastEvent.body.report_type, <<"Unknown Report">>)
          /\ report.keyFindings = TakeIfPresent(lastEvent.body.key_findings, <<>>)
          /\ report.summary = TakeIfPresent(lastEvent.body.summary, <<"No summary available.">>)
          /\ report.nextSteps = TakeIfPresent(lastEvent.body.next_steps, <<>>)
          /\ report.urgency = TakeIfPresent(lastEvent.body.urgency, <<"routine">>)
          /\ report.reportId = lastEvent.reportId

\* C11 (amended): the Report takes each field from the analyze response when it
\* is present and not the empty string, and otherwise the default: "Unknown",
\* "Unknown Report", empty sequence, "No summary available.", empty sequence,
\* "routine"; its reportId is the report_id the upload returned.
C11_ReportDefaults ==
    /\ AnalyzeUsesUploadedId
    /\ AnalyzeSucceeded =>
          /\ report.patientName = TakeIfNotEmpty(lastEvent.body.patient_name, <<"Unknown">>)
          /\ report.reportType = TakeIfNotEmpty(lastEvent.body.report_type, <<"Unknown Report">>)
          /\ report.keyFindings = TakeIfNotEmpty(lastEvent.body.key_findings, <<>>)
          /\ report.summary = TakeIfNotEmpty(lastEvent.body.summary, <<"No summary available.">>)
          /\ report.nextSteps = TakeIfNotEmpty(lastEvent.body.next_steps, <<>>)
          /\ report.urgency = TakeIfNotEmpty(lastEvent.body.urgency, <<"routine">>)
          /\ report.reportId = lastEvent.reportId

C11_Witness ==
    /\ AnalyzeSucceeded
    /\ lastEvent.body = BlankAnalysis
    /\ report.patientName = <<"Unknown">>
    /\ report.summary = <<"No summary available.">>
    /\ report.reportId = "r2"

\* the upload or the analyze request of a run has just failed
PipelineFailed ==
    lastEvent.op \in {"uploadSettled", "analyzeSettled"} /\ lastEvent.outcome # "ok"

\* C12: when the upload or the analyze request fails the run ends there: no
\* further request of it is outstanding, report is null, the active tab is not
\* 'results', and the file in state is kept.
C12_FailureLeavesNoReport ==
    [][PipelineFailed' =>
          /\ \A p \in pipelines' : p.id # lastEvent'.run
          /\ report' = Null
          /\ activeTab' # "results"
          /\ file' = file
          /\ file' # Null
          /\ lastEvent'.alert # NoAlert]_vars

C12_Witness ==
    /\ lastEvent.op = "analyzeSettled"
    /\ lastEvent.outcome # "ok"
    /\ report = Null
    /\ file # Null
    /\ pipelines = {}

\* C13: analyzing is true exactly while a run of analyzeReport has a request
\* outstanding: the run sets it, and the end of the run, by success or by
\* failure of either request, clears it.
C13_AnalyzingCleared == analyzing <=> pipelines # {}

C13_Witness ==
    /\ lastEvent.op = "uploadSettled"
    /\ lastEvent.outcome # "ok"
    /\ ~analyzing
    /\ runCount = 2

\* C14: at most one run of analyzeReport is in flight, so at most one upload
\* and at most one analyze request are outstanding and never both.
C14_OnePipelineInFlight == Cardinality(pipelines) <= 1

C14_Witness ==
    /\ analyzing
    /\ runCount = 2
    /\ Cardinality(pipelines) = 1
    /\ file # Null
    /\ UploadTabShown

\* C15: at most one ask request is outstanding at any moment.
C15_OneAskOutstanding == Cardinality(asks) <= 1

\* C16 as stated: an existing Report changes only by being replaced with the
\* Report of a successful analyze call.
C16_AsStated ==
    [][(report # Null /\ report' # report) =>
          /\ lastEvent'.op = "analyzeSettled"
          /\ lastEvent'.outcome = "ok"
          /\ report' # Null]_vars

\* C16 (amended): an existing Report changes only by being cleared when
\* analyzeReport is started again, and a Report is set only by a successful
\* analyze call, report being null until then.
C16_ReportClearedThenReplaced ==
    [][report' # report =>
          \/ /\ report # Null
             /\ lastEvent'.op = "analyzeReport"
             /\ report' = Null
          \/ /\ report = Null
             /\ lastEvent'.op = "analyzeSettled"
             /\ lastEvent'.outcome = "ok"
             /\ report' # Null]_vars

C16_Witness ==
    /\ PipelineFailed
    /\ report = Null
    /\ chatMessages # <<>>
    /\ runCount = 2

\* C17: the chat holds only messages of questions asked about the Report that
\* exists: it is empty when a Report is set, and while a Report exists every
\* outstanding ask request was sent for that Report's reportId.
C17_ChatScopedToReport ==
    /\ AnalyzeSucceeded => chatMessages = <<>>
    /\ report # Null => \A r \in asks : r.reportId = report.reportId

\* C18: a run enters its analyze request only from its own successful upload,
\* with the report_id that upload returned; a failed upload ends the run; and
\* a question is sent with the reportId of the Report existing at that moment.
C18_CallsInSequence ==
    [][/\ \A q \in pipelines' \ pipelines :
             \/ /\ q.stage = "upload"
                /\ lastEvent'.op = "analyzeReport"
                /\ q.id = lastEvent'.run
             \/ /\ q.stage = "analyze"
                /\ lastEvent'.op = "uploadSettled"
                /\ lastEvent'.outcome = "ok"
                /\ q.id = lastEvent'.run
                /\ q.reportId = lastEvent'.reportId
                /\ \E p \in pipelines \ pipelines' : p.id = q.id /\ p.stage = "upload"
       /\ (lastEvent'.op = "uploadSettled" /\ lastEvent'.outcome # "ok") =>
             \A q \in pipelines' : q.id # lastEvent'.run
       /\ \A r \in asks' \ asks :
             report # Null /\ r.reportId = report.reportId]_vars

C18_Witness ==
    /\ lastEvent.op = "uploadSettled"
    /\ lastEvent.outcome = "ok"
    /\ \E p \in pipelines : p.stage = "analyze" /\ p.reportId = "r2" /\ lastEvent.reportId = "r2"
    /\ chatMessages # <<>>

\* C19: the active tab is 'results', 'chat' or 'actions' only while a Report
\* exists, and no step activates one of them while report is null.
C19_TabsNeedReport ==
    /\ activeTab \in {"results", "chat", "actions"} => report # Null
    /\ activeTab \in Tabs

C19_Witness ==
    /\ activeTab = "chat"
    /\ report # Null
    /\ runCount = 2

====
